---------------------------- MODULE Spec2Model ----------------------------
(***************************************************************************)
(* Model of lnicola/tile-server: the tile grid (src/src/tile_grid.rs), the *)
(* tile request handler (src/src/main.rs, fn tile) and the mapping of its  *)
(* results to HTTP responses (src/src/main.rs, src/src/error.rs).          *)
(*                                                                         *)
(* Numbers.  The f64 values of the program are modelled as exact rationals *)
(* [n, d] in lowest terms (d > 0); the rounding error of f64 arithmetic is *)
(* not modelled.  Integer operations keep the width the program gives them *)
(* (1 << z on i32, usize subtraction).  Coordinates are in model units:    *)
(* one unit is origin_shift / 8 of the web-mercator grid.                  *)
(***************************************************************************)
EXTENDS Integers, Sequences, FiniteSets, TLC

VARIABLES
    dataset,    \* the raster the requests open: geometry and band samples
    cache,      \* the cache directory: file name -> chunks of the file
    req,        \* per request: position in the handler, locals, response
    gridcall    \* one call of TileGrid::tile_extent: inputs and result

vars == <<dataset, cache, req, gridcall>>

---------------------------------------------------------------------------
(* Exact rationals standing for f64.                                       *)

RECURSIVE GCD(_, _)
GCD(a, b) == IF b = 0 THEN a ELSE GCD(b, a % b)

Abs(a) == IF a < 0 THEN -a ELSE a

\* n/d in lowest terms with d > 0.  A negative even denominator is halved
\* before its sign is moved, so that -2^31 (1 << 31 on i32) is never negated.
RECURSIVE Norm(_, _)
Norm(n, d) ==
    IF d < 0
    THEN IF n % 2 = 0 /\ d % 2 = 0
         THEN Norm(n \div 2, d \div 2)
         ELSE Norm(-n, -d)
    ELSE LET g == GCD(Abs(n), d) IN [n |-> n \div g, d |-> d \div g]

R(i) == [n |-> i, d |-> 1]
Q(n, d) == Norm(n, d)

RAdd(a, b) == Norm(a.n * b.d + b.n * a.d, a.d * b.d)
RSub(a, b) == Norm(a.n * b.d - b.n * a.d, a.d * b.d)
RMul(a, b) ==
    LET g1 == GCD(Abs(a.n), b.d)
        g2 == GCD(Abs(b.n), a.d)
    IN  Norm((a.n \div g1) * (b.n \div g2), (a.d \div g2) * (b.d \div g1))
\* Common factors of two are cancelled first, so that the absolute value of
\* a divisor of -2^31 is never formed.
RECURSIVE RDiv(_, _)
RDiv(a, b) ==
    IF a.n % 2 = 0 /\ b.n % 2 = 0
    THEN RDiv([n |-> a.n \div 2, d |-> a.d], [n |-> b.n \div 2, d |-> b.d])
    ELSE LET g1 == GCD(Abs(a.n), Abs(b.n))
             g2 == GCD(a.d, b.d)
         IN  Norm((a.n \div g1) * (b.d \div g2), (a.d \div g2) * (b.n \div g1))
RLt(a, b) ==
    LET g == GCD(a.d, b.d) IN a.n * (b.d \div g) < b.n * (a.d \div g)
RGe(a, b) == ~RLt(a, b)
RMax(a, b) == IF RLt(a, b) THEN b ELSE a      \* f64::max
RMin(a, b) == IF RLt(b, a) THEN b ELSE a      \* f64::min

\* f64::round: to the nearest integer, halves away from zero.
Round(a) ==
    IF a.n >= 0
    THEN (2 * a.n + a.d) \div (2 * a.d)
    ELSE -((2 * (-a.n) + a.d) \div (2 * a.d))

\* `as usize` of an f64: negative values saturate to 0.
AsUsize(i) == IF i < 0 THEN 0 ELSE i

Min(a, b) == IF a < b THEN a ELSE b

Extent(x0, y0, x1, y1) == [xmin |-> x0, ymin |-> y0, xmax |-> x1, ymax |-> y1]

---------------------------------------------------------------------------
(* src/src/tile_grid.rs                                                    *)

\* 1 << z where 1 is an i32 and z a u8.  A shift of 32 or more bits is an
\* arithmetic overflow: it panics in a build with overflow checks and
\* shifts by z mod 32 in one without.  Bit 31 is the sign bit.
Shl1Wrapped(z) ==
    LET s == z % 32 IN IF s = 31 THEN -(2^30) - 2^30 ELSE 2^s

Shl1Overflows(z) == z >= 32

\* TileGrid::tile_extent, given the value of 1 << z.
TileExtentWith(grid, x, y, z, p) ==
    LET tile_w == RDiv(RSub(grid.xmax, grid.xmin), R(p))
        tile_h == RDiv(RSub(grid.ymax, grid.ymin), R(p))
    IN  Extent(RAdd(grid.xmin, RMul(tile_w, R(x))),
               RAdd(grid.ymin, RMul(tile_h, R(y))),
               RAdd(grid.xmin, RMul(tile_w, R(x + 1))),
               RAdd(grid.ymin, RMul(tile_h, R(y + 1))))

\* The outcomes of TileGrid::tile_extent(x, y, z): the extent computed
\* with the wrapped shift, or, when the shift overflows, also a panic.
tile_extent(grid, x, y, z) ==
    {[panic |-> FALSE, extent |-> TileExtentWith(grid, x, y, z, Shl1Wrapped(z))]}
        \cup (IF Shl1Overflows(z)
              THEN {[panic |-> TRUE, extent |-> Extent(R(0), R(0), R(0), R(0))]}
              ELSE {})

\* TileGrid::web_mercator, in model units (origin_shift = 8 units).
web_mercator ==
    LET origin_shift == R(8)
    IN  Extent(RSub(R(0), origin_shift), RSub(R(0), origin_shift),
               origin_shift, origin_shift)

---------------------------------------------------------------------------
(* src/src/main.rs, fn tile: the geometry of one request (lines 138-212).  *)

\* Config built by run(): lines 275-282.
reverse_y == FALSE
tile_width == 256
tile_height == 256

\* A raster's geometry: geo_transform()[0], [1], [3], [5] and raster_size().
Geo(x_min, x_size, y_max, y_size, w, h) ==
    [x_min |-> x_min, x_size |-> x_size, y_max |-> y_max, y_size |-> y_size,
     width |-> w, height |-> h]

image_extent(geo) ==
    Extent(geo.x_min,
           RAdd(geo.y_max, RMul(geo.y_size, R(geo.height))),
           RAdd(geo.x_min, RMul(geo.x_size, R(geo.width))),
           geo.y_max)

intersection_extent(T, I) ==
    Extent(RMax(T.xmin, I.xmin), RMax(T.ymin, I.ymin),
           RMin(T.xmax, I.xmax), RMin(T.ymax, I.ymax))

\* The test with > for >=: extents that only touch pass it.
OutsideBoundsStrict(X) == RLt(X.xmax, X.xmin) \/ RLt(X.ymax, X.ymin)

\* The test of lines 161-163 that returns Err(Error::OutsideBounds).
OutsideBounds(X) == RGe(X.xmin, X.xmax) \/ RGe(X.ymin, X.ymax)

\* Fractional pixel bounds of the intersection, lines 166-169.
px(X, I, geo)  == RDiv(RSub(X.xmin, I.xmin), geo.x_size)
py(X, I, geo)  == RDiv(RSub(X.ymin, I.ymax), geo.y_size)
px1(X, I, geo) == RDiv(RSub(X.xmax, I.xmin), geo.x_size)
py1(X, I, geo) == RDiv(RSub(X.ymax, I.ymax), geo.y_size)

\* Lines 171-175.
src_width(T, geo)  == RDiv(RSub(T.xmax, T.xmin), geo.x_size)
src_height(T, geo) == RDiv(RSub(T.ymin, T.ymax), geo.y_size)
src_tile_width_ratio(T, geo)  == RDiv(R(tile_width), src_width(T, geo))
src_tile_height_ratio(T, geo) == RDiv(R(tile_height), src_height(T, geo))

\* Paddings in rounded source pixels, lines 177-185.
off_left(T, X, geo)   == Round(RDiv(RSub(X.xmin, T.xmin), geo.x_size))
off_top(T, X, geo)    == Round(RDiv(RSub(X.ymax, T.ymax), geo.y_size))
off_right_truncated(T, X, geo) ==      \* `as isize` without round()
    LET v == RDiv(RSub(T.xmax, X.xmax), geo.x_size) IN v.n \div v.d
off_right(T, X, geo)  == Round(RDiv(RSub(T.xmax, X.xmax), geo.x_size))
off_bottom(T, X, geo) == Round(RDiv(RSub(T.ymin, X.ymin), geo.y_size))

\* The source read window, lines 187-190.
win_x(X, I, geo) == Round(px(X, I, geo))
win_y(X, I, geo) == Round(py1(X, I, geo))
win_w(X, I, geo) == AsUsize(Round(RSub(px1(X, I, geo), px(X, I, geo))))
win_h(X, I, geo) == AsUsize(Round(RSub(py(X, I, geo), py1(X, I, geo))))

\* Paddings rescaled to destination pixels, lines 204-207.
ol(T, X, geo) == AsUsize(Round(RMul(R(off_left(T, X, geo)), src_tile_width_ratio(T, geo))))
ot(T, X, geo) == AsUsize(Round(RMul(R(off_top(T, X, geo)), src_tile_height_ratio(T, geo))))
or(T, X, geo) == AsUsize(Round(RMul(R(off_right(T, X, geo)), src_tile_width_ratio(T, geo))))
ob(T, X, geo) == AsUsize(Round(RMul(R(off_bottom(T, X, geo)), src_tile_height_ratio(T, geo))))

\* What lines 147-212 compute for tile extent T over a raster of geometry
\* geo.  output_size is the mathematical value of the usize subtractions of
\* line 212; a negative component is a subtraction that overflowed.
Resolve(T, geo) ==
    LET I == image_extent(geo)
        X == intersection_extent(T, I)
    IN  IF OutsideBounds(X)
        THEN [known |-> TRUE, intersection_extent |-> X, outside |-> TRUE,
              input_position |-> <<>>, input_size |-> <<>>,
              off |-> <<>>, output_position |-> <<>>, output_size |-> <<>>,
              pad |-> <<>>]
        ELSE [known |-> TRUE, intersection_extent |-> X, outside |-> FALSE,
              input_position |-> <<win_x(X, I, geo), win_y(X, I, geo)>>,
              input_size |-> <<win_w(X, I, geo), win_h(X, I, geo)>>,
              off |-> <<off_left(T, X, geo), off_top(T, X, geo),
                        off_right(T, X, geo), off_bottom(T, X, geo)>>,
              output_position |-> <<ol(T, X, geo), ot(T, X, geo)>>,
              output_size |-> <<tile_width - ol(T, X, geo) - or(T, X, geo),
                                tile_height - ot(T, X, geo) - ob(T, X, geo)>>,
              pad |-> <<ol(T, X, geo), ot(T, X, geo), or(T, X, geo), ob(T, X, geo)>>]

---------------------------------------------------------------------------
(* Bounds of the model.                                                    *)

NumRequests == 2    \* requests in flight together
MaxZoom == 2        \* zoom levels 0..MaxZoom are requested (and 31, 32)
MaxPix == 2         \* pixels of each band buffer whose samples are tracked
FileChunks == 2     \* writes the PNG driver makes to produce one file

Requests == 1..NumRequests

\* HTTP status codes the responses use.
FOUND == 302
NOT_FOUND == 404
INTERNAL_SERVER_ERROR == 500

---------------------------------------------------------------------------
(* Rasters and tile keys the requests are drawn from.                      *)

\* Rasters over the grid [-8, 8] x [-8, 8], north-up (y_size < 0).
GeoFull   == Geo(R(-8), Q(1, 4), R(8), Q(-1, 4), 64, 64)      \* covers the grid
GeoWest   == Geo(R(-8), Q(1, 4), R(8), Q(-1, 4), 32, 64)      \* the west half
GeoThird  == Geo(R(-8), Q(3, 4), R(8), Q(-3, 4), 21, 22)      \* ends 1/3 pixel short of x = 8
GeoFine   == Geo(R(-8), Q(1, 128), R(8), Q(-1, 128), 2047, 2048) \* ends 1 fine pixel short
GeoCoarse == Geo(R(-11), R(5), R(11), R(-5), 5, 5)            \* 5-unit pixels
GeoHalf   == Geo(Q(-31, 4), Q(1, 2), R(8), Q(-1, 2), 31, 32)  \* half a pixel short on both sides
GeoOne    == Geo(Q(-511, 64), Q(1, 32), R(8), Q(-1, 32), 1, 512) \* one pixel column
GeoNarrow == Geo(R(-5), R(6), R(7), R(-6), 1, 2)              \* pixels wider than a tile

WindowGeos ==
    {GeoFull, GeoWest, GeoThird, GeoFine, GeoCoarse, GeoHalf, GeoOne, GeoNarrow}
HandlerGeos == {GeoFull, GeoWest}

\* Band samples of the tracked pixels: 0 is the nodata value.
PixelValues == {0, 200}
Patterns == [1..3 -> [1..MaxPix -> PixelValues]]
PatternMixed == [b \in 1..3 |-> [i \in 1..MaxPix |-> IF i = b THEN 0 ELSE 200]]

Source == "a.tif"

\* Path parameters (file, z, x, y) of a request.
Key(z, x, y) == [file |-> Source, z |-> z, x |-> x, y |-> y]
GridKeys == {Key(z, x, y) : z \in 0..MaxZoom, x \in 0..(2^MaxZoom - 1), y \in 0..(2^MaxZoom - 1)}
InGrid(k) == k.x < 2^k.z /\ k.y < 2^k.z
WindowKeys == {k \in GridKeys : InGrid(k)} \cup {Key(31, 0, 0), Key(31, 1, 0), Key(32, 0, 0)}
HandlerKeys == {Key(0, 0, 0), Key(1, 1, 0)}
AlphaKeys == {Key(0, 0, 0)}

---------------------------------------------------------------------------
(* src/src/main.rs, fn tile: the request handler.                          *)

\* Line 127: the cache file of a request.
file_name(file, z, x, y) == <<"cache", file, z, x, y>>

\* Line 130: the result of the existence check is not used.
exists == FALSE

\* Lines 132-134, the row flip on u32 (1 << z wraps as in Shl1Wrapped;
\* rows of the model are at most 2^z - 1).
FlipRow(y, z) == IF reverse_y THEN 2^(z % 32) - 1 - y ELSE y

\* impl IntoResponse for Png (main.rs 109-121) and for Error (error.rs 85-101).
PngResponse(bytes) ==
    [kind |-> "response", status |-> FOUND, content_type |-> "image/png", body |-> bytes]
ErrorResponse(e) ==
    [kind |-> "response",
     status |-> IF e = "OutsideBounds" THEN NOT_FOUND ELSE INTERNAL_SERVER_ERROR,
     content_type |-> "", body |-> <<>>]
\* A panic in the handler: the task ends and no response is written.
Panicked == [kind |-> "panic", status |-> 0, content_type |-> "", body |-> <<>>]
Pending == [kind |-> "pending", status |-> 0, content_type |-> "", body |-> <<>>]

NoResolve ==
    [known |-> FALSE, intersection_extent |-> Extent(R(0), R(0), R(0), R(0)),
     outside |-> FALSE, input_position |-> <<>>, input_size |-> <<>>, off |-> <<>>,
     output_position |-> <<>>, output_size |-> <<>>, pad |-> <<>>]

Idle ==
    [pc |-> "idle", key |-> Key(0, 0, 0), file_name |-> <<>>, _exists |-> FALSE,
     tile_extent |-> Extent(R(0), R(0), R(0), R(0)), res |-> NoResolve,
     i |-> 0, alpha |-> <<>>, out |-> <<>>, wpos |-> 0,
     opens |-> 0, band_reads |-> 0, cache_writes |-> 0, resp |-> Pending]

\* The tracked pixels of a buffer of n pixels.
Tracked(n) == 1..Min(n, MaxPix)

\* rasterband(i).read_as(input_position, input_size, output_size): the
\* samples of band i, resampled by the raster library to output_size.
read_as(ds, i, n) == [p \in Tracked(n) |-> ds.samples[i][p]]

\* Lines 230-234: zip the band's samples with alpha.
AlphaUpdate(buf, alpha) ==
    [p \in DOMAIN alpha |-> IF buf[p] = 0 THEN 0 ELSE alpha[p]]

\* A completely written file, and a write of chunk c at its own offset
\* into a file that may have been truncated since (a gap reads as zeros).
FullFile == [c \in 1..FileChunks |-> TRUE]
PutChunk(content, c) ==
    [j \in 1..(IF Len(content) > c THEN Len(content) ELSE c) |->
        IF j = c THEN TRUE ELSE IF j <= Len(content) THEN content[j] ELSE FALSE]

Finish(r, response) ==
    req' = [req EXCEPT ![r].pc = "done", ![r].resp = response]

\* Lines 127-136: the request arrives; cache lookup, row flip, tile extent.
Start(r, keys) ==
    /\ req[r].pc = "idle"
    /\ \E k \in keys :
        LET fname == file_name(k.file, k.z, k.x, k.y)
            found == fname \in DOMAIN cache          \* _exists, line 129
            started == [req[r] EXCEPT !.key = k, !.file_name = fname, !._exists = found]
        IN  IF ~exists
            THEN \E o \in tile_extent(web_mercator, k.x, FlipRow(k.y, k.z), k.z) :
                    req' = [req EXCEPT ![r] =
                        IF o.panic
                        THEN [started EXCEPT !.pc = "done", !.resp = Panicked]
                        ELSE [started EXCEPT !.pc = "open", !.tile_extent = o.extent]]
            ELSE req' = [req EXCEPT ![r] = [started EXCEPT !.pc = "read"]]
    /\ UNCHANGED <<dataset, cache, gridcall>>

\* Lines 137-212: Dataset::open and geo_transform succeed; the window and
\* the placement are computed.
OpenDataset(r) ==
    /\ req[r].pc = "open"
    /\ LET res == Resolve(req[r].tile_extent, dataset.geo)
           opened == [req[r] EXCEPT !.opens = @ + 1]
       IN  IF res.outside
           THEN req' = [req EXCEPT ![r] =
                    [opened EXCEPT !.pc = "done", !.res = res,
                                   !.resp = ErrorResponse("OutsideBounds")]]
           ELSE IF res.output_size[1] < 0 \/ res.output_size[2] < 0
           THEN \* usize subtraction overflows: a panic with overflow checks;
                \* without, a wrapped size that no allocation or read accepts.
                \E outcome \in {Panicked, ErrorResponse("Gdal")} :
                    req' = [req EXCEPT ![r] =
                        [opened EXCEPT !.pc = "done", !.res = res, !.resp = outcome]]
           ELSE req' = [req EXCEPT ![r] = [opened EXCEPT !.pc = "create", !.res = res]]
    /\ UNCHANGED <<dataset, cache, gridcall>>

\* Lines 216-222: the 4-band target image is created in memory, zeroed, and
\* the alpha buffer is allocated, opaque.
CreateTarget(r) ==
    /\ req[r].pc = "create"
    /\ LET n == req[r].res.output_size[1] * req[r].res.output_size[2]
       IN  req' = [req EXCEPT ![r].pc = "band", ![r].i = 1,
                              ![r].alpha = [p \in Tracked(n) |-> 255],
                              ![r].out = [b \in 1..4 |-> [p \in Tracked(n) |-> 0]]]
    /\ UNCHANGED <<dataset, cache, gridcall>>

\* Line 137-138: Dataset::open or geo_transform fails.
OpenFail(r) ==
    /\ req[r].pc = "open"
    /\ req' = [req EXCEPT ![r].pc = "done", ![r].opens = @ + 1,
                          ![r].resp = ErrorResponse("Gdal")]
    /\ UNCHANGED <<dataset, cache, gridcall>>

\* Lines 223-237: one iteration of the loop over bands 1..3.
ReadBand(r) ==
    /\ req[r].pc = "band"
    /\ LET i == req[r].i
           n == req[r].res.output_size[1] * req[r].res.output_size[2]
           buf == read_as(dataset, i, n)
       IN  req' = [req EXCEPT ![r].band_reads = @ + 1,
                              ![r].alpha = AlphaUpdate(buf, @),
                              ![r].out[i] = buf,
                              ![r].i = i + 1,
                              ![r].pc = IF i = 3 THEN "alpha" ELSE "band"]
    /\ UNCHANGED <<dataset, cache, gridcall>>

\* Lines 239-241: the alpha buffer is written as band 4.
WriteAlpha(r) ==
    /\ req[r].pc = "alpha"
    /\ req' = [req EXCEPT ![r].out[4] = req[r].alpha, ![r].pc = "encode"]
    /\ UNCHANGED <<dataset, cache, gridcall>>

\* Lines 216-241: a `?` of the closure fails before create_copy.
ComputeFail(r) ==
    /\ req[r].pc \in {"create", "band", "alpha"}
    /\ Finish(r, ErrorResponse("Gdal"))
    /\ UNCHANGED <<dataset, cache, gridcall>>

\* Line 244, create_copy: the PNG driver creates (or truncates) the file
\* at its final name ...
CreateCopyOpen(r) ==
    /\ req[r].pc = "encode"
    /\ cache' = [f \in DOMAIN cache \cup {req[r].file_name} |->
                    IF f = req[r].file_name THEN <<>> ELSE cache[f]]
    /\ req' = [req EXCEPT ![r].pc = "writing", ![r].wpos = 0, ![r].cache_writes = @ + 1]
    /\ UNCHANGED <<dataset, gridcall>>

\* ... and writes it chunk by chunk; after the last one create_copy returns.
CreateCopyWrite(r) ==
    /\ req[r].pc = "writing"
    /\ LET c == req[r].wpos + 1
       IN  /\ cache' = [cache EXCEPT ![req[r].file_name] = PutChunk(@, c)]
           /\ req' = [req EXCEPT ![r].wpos = c, ![r].cache_writes = @ + 1,
                                 ![r].pc = IF c = FileChunks THEN "read" ELSE "writing"]
    /\ UNCHANGED <<dataset, gridcall>>

\* Lines 243-244: Driver::get("PNG") or create_copy fails; what was written
\* stays on disk.
CreateCopyFail(r) ==
    /\ req[r].pc \in {"encode", "writing"}
    /\ Finish(r, ErrorResponse("Gdal"))
    /\ UNCHANGED <<dataset, cache, gridcall>>

\* Lines 248-249: the cache file is read and returned as a Png.
ReadFile(r) ==
    /\ req[r].pc = "read"
    /\ IF req[r].file_name \in DOMAIN cache
       THEN Finish(r, PngResponse(cache[req[r].file_name]))
       ELSE Finish(r, ErrorResponse("Io"))
    /\ UNCHANGED <<dataset, cache, gridcall>>

\* Line 248: tokio::fs::read fails.
ReadFail(r) ==
    /\ req[r].pc = "read"
    /\ Finish(r, ErrorResponse("Io"))
    /\ UNCHANGED <<dataset, cache, gridcall>>

Handler(r, keys) ==
    \/ Start(r, keys)
    \/ OpenDataset(r)
    \/ OpenFail(r)
    \/ CreateTarget(r)
    \/ ReadBand(r)
    \/ WriteAlpha(r)
    \/ ComputeFail(r)
    \/ CreateCopyOpen(r)
    \/ CreateCopyWrite(r)
    \/ CreateCopyFail(r)
    \/ ReadFile(r)
    \/ ReadFail(r)

---------------------------------------------------------------------------
(* One call of TileGrid::tile_extent on a grid made by TileGrid::new.      *)

Grids == {web_mercator, Extent(R(0), R(0), R(16), R(16)), Extent(R(-4), R(2), R(12), R(10))}
GridZooms == (0..MaxZoom) \cup {30, 31, 32, 255}
GridInputs ==
    {[grid |-> g, z |-> z, x |-> x, y |-> y] :
        g \in Grids, z \in GridZooms, x \in 0..(2^MaxZoom - 1), y \in 0..1}

NoCall == [called |-> FALSE, in |-> [grid |-> web_mercator, z |-> 0, x |-> 0, y |-> 0],
           panic |-> FALSE, extent |-> Extent(R(0), R(0), R(0), R(0))]

CallTileExtent ==
    /\ ~gridcall.called
    /\ \E o \in tile_extent(gridcall.in.grid, gridcall.in.x, gridcall.in.y, gridcall.in.z) :
        gridcall' = [gridcall EXCEPT !.called = TRUE, !.panic = o.panic, !.extent = o.extent]
    /\ UNCHANGED <<dataset, cache, req>>

---------------------------------------------------------------------------
(* Specifications.                                                         *)

InitHandler(geos, patterns) ==
    /\ dataset \in {[geo |-> g, samples |-> s] : g \in geos, s \in patterns}
    /\ cache = <<>>
    /\ req = [r \in Requests |-> Idle]
    /\ gridcall = NoCall

\* Concurrent requests.
Init == InitHandler(HandlerGeos, {PatternMixed})
Next == \E r \in Requests : Handler(r, HandlerKeys)
Spec == Init /\ [][Next]_vars

\* One request at a time, over every raster and tile key.
InitWindow == InitHandler(WindowGeos, {PatternMixed})
NextWindow == Handler(1, WindowKeys)
SpecWindow == InitWindow /\ [][NextWindow]_vars

\* One request over every pattern of band samples.
InitAlpha == InitHandler({GeoFull}, Patterns)
NextAlpha == Handler(1, AlphaKeys)
SpecAlpha == InitAlpha /\ [][NextAlpha]_vars

\* One call of tile_extent.
InitGrid ==
    /\ dataset = [geo |-> GeoFull, samples |-> PatternMixed]
    /\ cache = <<>>
    /\ req = [r \in Requests |-> Idle]
    /\ gridcall \in {[NoCall EXCEPT !.in = i] : i \in GridInputs}
NextGrid == CallTileExtent
SpecGrid == InitGrid /\ [][NextGrid]_vars

---------------------------------------------------------------------------
(* Properties.                                                             *)

Done(r) == req[r].pc = "done"
\* The request got past the OutsideBounds check.
Placed(r) == req[r].res.known /\ ~req[r].res.outside
\* The four bands of the target image are written.
Composed(r) == req[r].pc \in {"encode", "writing", "read"}

\* C1: a request whose cache file exists when it starts returns the file
\* without opening the dataset, reading a band or writing the cache file.
C1_CacheHitSkipsCompute ==
    \A r \in Requests :
        req[r]._exists =>
            req[r].opens = 0 /\ req[r].band_reads = 0 /\ req[r].cache_writes = 0

\* C2: under every interleaving, a request that returns tile bytes returns
\* the complete file, never one that another request has partly written.
C2_NoPartialFileServed ==
    \A r \in Requests :
        (Done(r) /\ req[r].resp.content_type = "image/png") =>
            req[r].resp.body = FullFile

\* C3: when the intersection is degenerate (touching extents included) the
\* request has failed with OutsideBounds (404) with no window or placement
\* computed, no band read and no cache file written.
Degenerate(X) == ~RLt(X.xmin, X.xmax) \/ ~RLt(X.ymin, X.ymax)
C3_OutsideBoundsStops ==
    \A r \in Requests :
        (req[r].res.known /\ Degenerate(req[r].res.intersection_extent)) =>
            /\ Done(r)
            /\ req[r].resp = ErrorResponse("OutsideBounds")
            /\ req[r].resp.status = NOT_FOUND
            /\ req[r].res.input_position = <<>> /\ req[r].res.input_size = <<>>
            /\ req[r].res.output_position = <<>> /\ req[r].res.output_size = <<>>
            /\ req[r].band_reads = 0
            /\ req[r].cache_writes = 0
            /\ req[r].file_name \notin DOMAIN cache

\* C3 witness: a tile that only touches the image along an edge was refused.
C3_Witness ==
    \E r \in Requests :
        /\ req[r].res.known /\ Done(r)
        /\ req[r].res.intersection_extent.xmin = req[r].res.intersection_extent.xmax
        /\ req[r].resp.status = NOT_FOUND

\* C4: a finished request has answered 200 with image/png and the tile, or
\* 404 on OutsideBounds, or 500 on any other failure.
C4_ResponseOutcomes ==
    \A r \in Requests :
        Done(r) =>
            /\ req[r].resp.kind = "response"
            /\ \/ /\ req[r].resp.status = 200
                  /\ req[r].resp.content_type = "image/png"
               \/ req[r].resp.status = NOT_FOUND /\ req[r].res.outside
               \/ /\ req[r].resp.status = INTERNAL_SERVER_ERROR
                  /\ ~req[r].res.outside
                  /\ req[r].resp.body = <<>>

\* C5: a request that failed returned no bytes and did not touch the
\* cache location.
C5_FailureLeavesNoEntry ==
    \A r \in Requests :
        (Done(r) /\ req[r].resp.content_type # "image/png") =>
            req[r].resp.body = <<>> /\ req[r].cache_writes = 0

\* C6: in the composed tile, alpha is 0 exactly where the band-1 sample is
\* 0, and 255 elsewhere, whatever bands 2 and 3 hold.
C6_AlphaFromBandOne ==
    \A r \in Requests :
        Composed(r) =>
            \A p \in DOMAIN req[r].out[4] :
                req[r].out[4][p] = IF req[r].out[1][p] = 0 THEN 0 ELSE 255

\* C7: for every zoom z (a u8) and column, row in [0, 2^z), tile_extent
\* returns a valid extent whose right and top edges are the left and bottom
\* edges of the next cells, and the first and last cells reach the edges of
\* the global extent.
C7_Partition ==
    LET in == gridcall.in
        e == gridcall.extent
        InRange == in.z > 30 \/ (in.x < 2^in.z /\ in.y < 2^in.z)
        Last(i) == in.z <= 30 /\ i = 2^in.z - 1
        next(x, y) == TileExtentWith(in.grid, x, y, in.z, Shl1Wrapped(in.z))
    IN  (gridcall.called /\ InRange) =>
            /\ ~gridcall.panic
            /\ RLt(e.xmin, e.xmax) /\ RLt(e.ymin, e.ymax)
            /\ e.xmax = next(in.x + 1, in.y).xmin
            /\ e.ymax = next(in.x, in.y + 1).ymin
            /\ (in.x = 0 => e.xmin = in.grid.xmin)
            /\ (in.y = 0 => e.ymin = in.grid.ymin)
            /\ (Last(in.x) => e.xmax = in.grid.xmax)
            /\ (Last(in.y) => e.ymax = in.grid.ymax)

\* The tile reaches past the right side of the image only.
RightOnly(r) ==
    LET T == req[r].tile_extent
        I == image_extent(dataset.geo)
    IN  /\ Placed(r)
        /\ RLt(I.xmax, T.xmax) /\ ~RLt(T.xmin, I.xmin)
        /\ ~RLt(T.ymin, I.ymin) /\ ~RLt(I.ymax, T.ymax)

\* C8 as stated: with an overlap on the right edge only, the left, top and
\* bottom paddings are 0 and the right padding is strictly positive, in
\* source pixels and in destination pixels.
C8_RightPaddingPositive ==
    \A r \in Requests :
        RightOnly(r) =>
            /\ req[r].res.off[1] = 0 /\ req[r].res.off[2] = 0 /\ req[r].res.off[4] = 0
            /\ req[r].res.pad[1] = 0 /\ req[r].res.pad[2] = 0 /\ req[r].res.pad[4] = 0
            /\ req[r].res.off[3] > 0
            /\ req[r].res.pad[3] > 0

\* C8 amended: with an overlap on the right edge only, the left, top and
\* bottom paddings are 0; the right padding is positive in source pixels
\* exactly when the tile reaches at least half a source pixel past the
\* image, and positive in destination pixels exactly when the rounded
\* source padding times the scale ratio is at least one half.
C8_RightPaddingRounded ==
    \A r \in Requests :
        RightOnly(r) =>
            LET T == req[r].tile_extent
                I == image_extent(dataset.geo)
                over == RSub(T.xmax, I.xmax)
                span == RSub(T.xmax, T.xmin)
                off == req[r].res.off
                pad == req[r].res.pad
            IN  /\ off[1] = 0 /\ off[2] = 0 /\ off[4] = 0
                /\ pad[1] = 0 /\ pad[2] = 0 /\ pad[4] = 0
                /\ off[3] >= 0 /\ pad[3] >= 0
                /\ (off[3] > 0 <=> ~RLt(RMul(R(2), over), dataset.geo.x_size))
                /\ (pad[3] > 0 <=>
                        ~RLt(RMul(R(2 * off[3] * tile_width), dataset.geo.x_size), span))

\* C8 witness: a right-only overlap of less than half a source pixel.
C8_Witness ==
    \E r \in Requests :
        /\ RightOnly(r)
        /\ RLt(RMul(R(2), RSub(req[r].tile_extent.xmax, image_extent(dataset.geo).xmax)),
               dataset.geo.x_size)
        /\ req[r].res.off[3] = 0

\* C9: the window position is (round(px0), round(py1)) and its size is
\* (round(px1) - round(px0), round(py0) - round(py1)), each bound rounded
\* on its own.
C9_WindowFromRoundedBounds ==
    \A r \in Requests :
        Placed(r) =>
            LET I == image_extent(dataset.geo)
                X == req[r].res.intersection_extent
                g == dataset.geo
            IN  /\ req[r].res.input_position = <<Round(px(X, I, g)), Round(py1(X, I, g))>>
                /\ req[r].res.input_size =
                        <<Round(px1(X, I, g)) - Round(px(X, I, g)),
                          Round(py(X, I, g)) - Round(py1(X, I, g))>>

\* C10: past the OutsideBounds check the placement lies inside the tile:
\* opposite paddings sum to at most the tile size and offset + size stays
\* within the tile.
C10_PlacementInsideTile ==
    \A r \in Requests :
        Placed(r) =>
            /\ req[r].res.pad[1] + req[r].res.pad[3] <= tile_width
            /\ req[r].res.pad[2] + req[r].res.pad[4] <= tile_height
            /\ req[r].res.output_size[1] >= 0 /\ req[r].res.output_size[2] >= 0
            /\ req[r].res.output_position[1] + req[r].res.output_size[1] <= tile_width
            /\ req[r].res.output_position[2] + req[r].res.output_size[2] <= tile_height

===========================================================================
